---- MODULE Spec2Model ----
(***************************************************************************)
(* StreamBoard (VATSIM flight board): the flight enrichment pipeline of    *)
(* vatsim.js and the application state machine of app.js (navigation,      *)
(* refresh timer, preview rotation).                                       *)
(*                                                                         *)
(* Units.  Positions are integer arc-minutes; every position of the model  *)
(* lies on one meridian, where the haversine formula reduces to            *)
(* R * |dLat|.  Distances are integer thousandths of a nautical mile,      *)
(* the estimated time enroute is in thousandths of a minute.               *)
(***************************************************************************)
EXTENDS Integers, Sequences, FiniteSets, TLC

VARIABLES
    state,          \* app.js: the `state` object
    timers,         \* the browser's active setInterval timers: [id, kind]
    pending,        \* refreshData() calls suspended at `await fetchVatsimData()`
    innerHeight,    \* window.innerHeight
    airportsCache,  \* airports.js: TRUE when the airport table is loaded
    run,            \* observer: the advance() calls since the rotation was at page 0
    refreshed,      \* observer: the refreshData() that has just completed
    pilots,         \* pipeline harness: vatsimData.pilots
    query,          \* pipeline harness: the (icao, mode) of the last run
    result,         \* pipeline harness: the list the last run returned
    stageCall,      \* the last detectFlightStage call: arguments and result
    airlineCall,    \* the last getAirlineInfo call: callsign, table and result
    parseCall,      \* the reference text (its lines) and what parseVATSpyData made of it
    searchCall,     \* the last searchAirports call: table, query, limit and result
    airlinesCache,  \* airlines.js: "null", "empty" ({}) or "table"
    fetchCall       \* the last fetch operation: its response and its outcome

vars == <<state, timers, pending, innerHeight, airportsCache, run, refreshed,
          pilots, query, result, stageCall, airlineCall,
          parseCall, searchCall, airlinesCache, fetchCall>>

appVars == <<state, timers, pending, innerHeight, airportsCache, run, refreshed>>

pipeVars == <<pilots, query, result>>

\* the variables of the calls of the pure functions
pureVars == <<stageCall, airlineCall, parseCall, searchCall, airlinesCache,
              fetchCall>>

(***************************************************************************)
(* Bounds of the model.                                                    *)
(***************************************************************************)
\* pilots of a snapshot given to the pipeline
MaxPilots == 2
\* live timers
MaxTimers == 4
\* refreshData() calls suspended at the same time
MaxPending == 2
\* countdown ticks followed after each reset of the countdown
MaxTicks == 2

\* the longest callsign of the exhaustive part of the callsign set
MaxCallsign == 4

\* the lines of the reference text
MaxLines == 3

\* the largest `limit` searchAirports is called with
MaxLimit == 3

\* the number of fetch operations followed
MaxFetches == 4

(***************************************************************************)
(* JavaScript values.                                                      *)
(***************************************************************************)
\* null / undefined where a string is expected
Null == "<null>"

\* null where a number is expected (the ete; real values are >= 0)
NullNum == -1

\* a string used as a condition: "" , null and undefined are falsy
Truthy(s) == s # "" /\ s # Null

\* String.prototype.toUpperCase on the strings of the model
ToUpperCase(s) ==
    CASE s = "kjfk" -> "KJFK"
      [] s = "kbos" -> "KBOS"
      [] OTHER -> s

Abs(n) == IF n < 0 THEN -n ELSE n

Max(a, b) == IF a >= b THEN a ELSE b

\* Math.ceil(a / b) for a >= 0, b > 0
Ceil(a, b) == (a + b - 1) \div b

(***************************************************************************)
(* distance.js                                                             *)
(***************************************************************************)
\* EARTH_RADIUS_NM * pi / 10800: thousandths of a nautical mile per
\* arc-minute of a great circle, times 1000 (3440.065 * pi / 10800 = 1.000674)
MicroNmPerArcMinute == 1000674

\* haversine(lat1, lon1, lat2, lon2) for two points of one meridian:
\* dLon = 0, so a = sin^2(dLat/2), c = |dLat| and the result is R * |dLat|
Haversine(lat1, lon1, lat2, lon2) ==
    (Abs(lat2 - lat1) * MicroNmPerArcMinute) \div 1000

\* `Infinity`, the distance to an unknown airport
Infinity == 999999999

\* n nautical miles in the model's unit
Nm(n) == n * 1000

(***************************************************************************)
(* airports.js: the lookup table                                           *)
(***************************************************************************)
NoAirport == [icao |-> Null, name |-> Null, lat |-> 0, lon |-> 0]

\* the airports airportsCache holds once loaded (keys are uppercase)
AirportTable ==
    { [icao |-> "KJFK", name |-> "Kennedy", lat |-> 0,   lon |-> 0],
      [icao |-> "KBOS", name |-> "Boston",  lat |-> 160, lon |-> 0],
      [icao |-> "KATL", name |-> "Atlanta", lat |-> -660, lon |-> 0] }

\* getAirport(icao) with the cache in state `loaded`
GetAirport(loaded, icao) ==
    IF ~loaded THEN NoAirport
    ELSE IF \E a \in AirportTable : a.icao = ToUpperCase(icao)
         THEN CHOOSE a \in AirportTable : a.icao = ToUpperCase(icao)
         ELSE NoAirport

IsAirport(a) == a.icao # Null

(***************************************************************************)
(* vatsim.js: detectFlightStage                                            *)
(***************************************************************************)
\* the classifier with 50 kts still counted as on the ground (a variant,
\* for C12)
DetectFlightStageGroundAt50(pilot, depAirport, arrAirport) ==
    LET altitude == pilot.altitude
        distFromDep == IF IsAirport(depAirport)
                       THEN Haversine(pilot.latitude, pilot.longitude,
                                      depAirport.lat, depAirport.lon)
                       ELSE Infinity
        distFromArr == IF IsAirport(arrAirport)
                       THEN Haversine(pilot.latitude, pilot.longitude,
                                      arrAirport.lat, arrAirport.lon)
                       ELSE Infinity
    IN  IF pilot.groundspeed <= 50 /\ altitude < 500 THEN "ground"
        ELSE IF altitude < 10000 /\ distFromDep < Nm(50) THEN "departing"
        ELSE IF altitude < 10000 /\ distFromArr < Nm(100) THEN "arriving"
        ELSE IF altitude > 25000 THEN "cruising"
        ELSE IF distFromDep < distFromArr THEN "departing"
        ELSE "arriving"

DetectFlightStage(pilot, depAirport, arrAirport) ==
    LET altitude == pilot.altitude
        groundspeed == pilot.groundspeed
        distFromDep == IF IsAirport(depAirport)
                       THEN Haversine(pilot.latitude, pilot.longitude,
                                      depAirport.lat, depAirport.lon)
                       ELSE Infinity
        distFromArr == IF IsAirport(arrAirport)
                       THEN Haversine(pilot.latitude, pilot.longitude,
                                      arrAirport.lat, arrAirport.lon)
                       ELSE Infinity
    IN  IF groundspeed < 50 /\ altitude < 500 THEN "ground"
        ELSE IF altitude < 10000 /\ distFromDep < Nm(50) THEN "departing"
        ELSE IF altitude < 10000 /\ distFromArr < Nm(100) THEN "arriving"
        ELSE IF altitude > 25000 THEN "cruising"
        ELSE IF distFromDep < distFromArr THEN "departing"
        ELSE "arriving"

(***************************************************************************)
(* vatsim.js: processPilot                                                 *)
(***************************************************************************)
\* pilot.flight_plan absent (null): `pilot.flight_plan || {}` has no fields
NoFlightPlan == [present |-> FALSE, departure |-> Null, arrival |-> Null]

\* the ete condition with 50 kts counted as moving (a variant, for C10)
EteComputedFrom50(groundspeed, distanceFromAirport) ==
    groundspeed >= 50 /\ distanceFromAirport > 0

\* the ete condition of processPilot
EteComputed(groundspeed, distanceFromAirport) ==
    groundspeed > 50 /\ distanceFromAirport > 0

\* the route leg taken from the side of the query (a variant, for C9)
RouteLegSameSide(mode, depValue, arrValue) ==
    IF mode = "dep" THEN depValue ELSE arrValue

\* the route leg of processPilot: the arrival side for 'dep', else the departure
RouteLeg(mode, depValue, arrValue) ==
    IF mode = "dep" THEN arrValue ELSE depValue

ProcessPilot(loaded, pilot, selectedAirport, mode) ==
    LET flightPlan == pilot.flight_plan
        depIcao == IF Truthy(flightPlan.departure) THEN flightPlan.departure ELSE Null
        arrIcao == IF Truthy(flightPlan.arrival) THEN flightPlan.arrival ELSE Null
        depAirport == IF Truthy(depIcao) THEN GetAirport(loaded, depIcao) ELSE NoAirport
        arrAirport == IF Truthy(arrIcao) THEN GetAirport(loaded, arrIcao) ELSE NoAirport
        distanceFromAirport == Haversine(pilot.latitude, pilot.longitude,
                                         selectedAirport.lat, selectedAirport.lon)
        stage == DetectFlightStage(pilot, depAirport, arrAirport)
        routeIcao == RouteLeg(mode,
                              IF Truthy(depIcao) THEN depIcao ELSE "Unknown",
                              IF Truthy(arrIcao) THEN arrIcao ELSE "Unknown")
        routeAirport == RouteLeg(mode, depAirport, arrAirport)
        routeName == IF IsAirport(routeAirport) THEN routeAirport.name ELSE "Unknown"
        ete == IF EteComputed(pilot.groundspeed, distanceFromAirport)
               THEN (distanceFromAirport * 60) \div pilot.groundspeed
               ELSE NullNum
    IN  [cid |-> pilot.cid,
         latitude |-> pilot.latitude,
         longitude |-> pilot.longitude,
         altitude |-> pilot.altitude,
         groundspeed |-> pilot.groundspeed,
         departure |-> IF Truthy(depIcao) THEN depIcao ELSE "Unknown",
         arrival |-> IF Truthy(arrIcao) THEN arrIcao ELSE "Unknown",
         routeIcao |-> routeIcao,
         routeName |-> routeName,
         stage |-> stage,
         distanceFromAirport |-> distanceFromAirport,
         ete |-> ete,
         depAirport |-> depAirport,
         arrAirport |-> arrAirport]

(***************************************************************************)
(* vatsim.js: getFlightsForAirport                                         *)
(***************************************************************************)
\* the proximity rule with 3000 ft counted as low (a variant, for C8)
NearbyLowUpTo3000(dist, altitude) == dist < Nm(10) /\ altitude <= 3000

\* the proximity rule for aircraft without a declared departure
NearbyLow(dist, altitude) == dist < Nm(10) /\ altitude < 3000

\* the filter of the loop body: is this pilot pushed to `flights`?
Include(pilot, upperIcao, mode, selectedAirport) ==
    LET flightPlan == pilot.flight_plan
    IN  IF mode = "dep"
        THEN IF flightPlan.present /\ flightPlan.departure = upperIcao
             THEN TRUE
             ELSE IF ~flightPlan.present \/ ~Truthy(flightPlan.departure)
                  THEN NearbyLow(Haversine(pilot.latitude, pilot.longitude,
                                           selectedAirport.lat, selectedAirport.lon),
                                 pilot.altitude)
                  ELSE FALSE
        ELSE IF mode = "arr"
             THEN flightPlan.present /\ flightPlan.arrival = upperIcao
             ELSE FALSE

\* a.routeName.localeCompare(b.routeName) < 0 on the names of the model
NameRank(name) ==
    CASE name = "Atlanta" -> 1
      [] name = "Boston"  -> 2
      [] name = "Kennedy" -> 3
      [] name = "Unknown" -> 4
      [] OTHER -> 5

\* a comparator that also moves equal names (a variant, for C11)
ComesBeforeOrEqual(a, b) == NameRank(a.routeName) <= NameRank(b.routeName)

ComesBefore(a, b) == NameRank(a.routeName) < NameRank(b.routeName)

\* insert f behind every element that does not come after it (stable)
RECURSIVE InsertSorted(_, _)
InsertSorted(f, list) ==
    IF list = <<>> THEN <<f>>
    ELSE IF ComesBefore(f, Head(list)) THEN <<f>> \o list
    ELSE <<Head(list)>> \o InsertSorted(f, Tail(list))

\* flights.sort(...): Array.prototype.sort is stable
RECURSIVE SortFlights(_)
SortFlights(list) ==
    IF list = <<>> THEN <<>>
    ELSE InsertSorted(list[Len(list)], SortFlights(SubSeq(list, 1, Len(list) - 1)))

\* the loop over vatsimData.pilots: the processed pilots that pass the filter
RECURSIVE FilterPilots(_, _, _, _, _)
FilterPilots(loaded, ps, upperIcao, mode, selectedAirport) ==
    IF ps = <<>> THEN <<>>
    ELSE (IF Include(Head(ps), upperIcao, mode, selectedAirport)
          THEN <<ProcessPilot(loaded, Head(ps), selectedAirport, mode)>>
          ELSE <<>>)
         \o FilterPilots(loaded, Tail(ps), upperIcao, mode, selectedAirport)

\* a snapshot: [present: the object exists and has `pilots`, pilots: the list]
NoData == [present |-> FALSE, id |-> 0, pilots |-> <<>>]

GetFlightsForAirport(loaded, vatsimData, icao, mode, selectedAirport) ==
    IF ~vatsimData.present THEN <<>>
    ELSE SortFlights(FilterPilots(loaded, vatsimData.pilots, ToUpperCase(icao),
                                  mode, selectedAirport))

(***************************************************************************)
(* The inputs of the model.                                                *)
(***************************************************************************)
FlightPlan(dep, arr) == [present |-> TRUE, departure |-> dep, arrival |-> arr]

\* flight plans: absent, complete, one leg missing (""), an airport that is
\* not in the table, a lower-case departure, a second destination
FlightPlans ==
    { NoFlightPlan,
      FlightPlan("KJFK", "KBOS"), FlightPlan("KATL", "KJFK"),
      FlightPlan("", "KJFK"), FlightPlan("KJFK", ""),
      FlightPlan("KJFK", "ZZZZ"), FlightPlan("kjfk", "KBOS"),
      FlightPlan("KJFK", "KATL") }

\* position (arc-minutes north of KJFK), altitude (ft), groundspeed (kts):
\* at the airport; 9 and 10 arc-minutes out; below and at 3000 ft; at and
\* above 50 kts
Kinematics ==
    { [latitude |-> 0,  altitude |-> 0,    groundspeed |-> 51],
      [latitude |-> 9,  altitude |-> 2999, groundspeed |-> 51],
      [latitude |-> 10, altitude |-> 2999, groundspeed |-> 50],
      [latitude |-> 9,  altitude |-> 3000, groundspeed |-> 400] }

Pilot(cid, plan, k) ==
    [cid |-> cid, latitude |-> k.latitude, longitude |-> 0,
     altitude |-> k.altitude, groundspeed |-> k.groundspeed,
     flight_plan |-> plan]

\* the ICAO codes a query is made with (the pipeline uppercases them)
QueryIcaos == {"KJFK", "kjfk"}

DisplayModes == {"dep", "arr"}

(***************************************************************************)
(* The pipeline harness: build a snapshot pilot by pilot, run the pipeline *)
(* on it for a query.                                                      *)
(***************************************************************************)
NoQuery == [icao |-> Null, mode |-> Null, present |-> FALSE]

AddPilot ==
    /\ Len(pilots) < MaxPilots
    /\ \E plan \in FlightPlans, k \in Kinematics :
           pilots' = Append(pilots, Pilot(Len(pilots) + 1, plan, k))
    /\ query' = NoQuery
    /\ result' = <<>>
    /\ UNCHANGED <<appVars, pureVars>>

\* getFlightsForAirport(vatsimData, icao, mode, getAirport(icao)); the
\* snapshot object may be absent
RunPipeline ==
    /\ \E icao \in QueryIcaos, mode \in DisplayModes, present \in BOOLEAN :
           /\ present \/ pilots = <<>>
           /\ query' = [icao |-> icao, mode |-> mode, present |-> present]
           /\ result' = GetFlightsForAirport(
                            TRUE,
                            [present |-> present, id |-> 0, pilots |-> pilots],
                            icao, mode, GetAirport(TRUE, icao))
    /\ UNCHANGED pilots
    /\ UNCHANGED <<appVars, pureVars>>

(***************************************************************************)
(* The stage harness: detectFlightStage on the corners of its thresholds.  *)
(***************************************************************************)
\* altitudes on both sides of 500, 10000 and 25000 ft
StageAltitudes == {0, 499, 500, 9999, 10000, 25000, 25001}

\* groundspeeds on both sides of 50 kts
StageGroundspeeds == {49, 50}

\* positions (arc-minutes north of KJFK): 49.03 and 50.03 nm from KJFK,
\* 100.07 and 99.07 nm from KBOS, half way between KJFK and KBOS, half way
\* between KJFK and KATL
StageLatitudes == {0, 49, 50, 60, 61, 80, -330}

\* what getAirport gives processPilot: an airport of the table or null
StageAirports == AirportTable \cup {NoAirport}

NoStageCall ==
    [called |-> FALSE, pilot |-> Pilot(0, NoFlightPlan,
                                       [latitude |-> 0, altitude |-> 0,
                                        groundspeed |-> 0]),
     depAirport |-> NoAirport, arrAirport |-> NoAirport, stage |-> Null]

\* detectFlightStage(pilot, depAirport, arrAirport)
DetectStage ==
    /\ \E altitude \in StageAltitudes, groundspeed \in StageGroundspeeds,
          latitude \in StageLatitudes, depAirport, arrAirport \in StageAirports :
          LET pilot == Pilot(0, NoFlightPlan,
                             [latitude |-> latitude, altitude |-> altitude,
                              groundspeed |-> groundspeed])
          IN  stageCall' = [called |-> TRUE, pilot |-> pilot,
                            depAirport |-> depAirport, arrAirport |-> arrAirport,
                            stage |-> DetectFlightStage(pilot, depAirport, arrAirport)]
    /\ UNCHANGED <<appVars, pipeVars, airlineCall, parseCall, searchCall,
                   airlinesCache, fetchCall>>

(***************************************************************************)
(* airlines.js: callsigns are sequences of characters.                     *)
(***************************************************************************)
\* null / undefined where a callsign, a prefix or a flight number is expected
NullSeq == <<Null>>

\* the characters of the model: letters in both cases, a digit, a symbol
Alphabet == {"N", "C", "O", "n", "c", "1", "-"}

\* toUpperCase on a character
UpperChar(ch) ==
    CASE ch = "n" -> "N"
      [] ch = "c" -> "C"
      [] ch = "a" -> "A"
      [] ch = "b" -> "B"
      [] ch = "e" -> "E"
      [] ch = "j" -> "J"
      [] ch = "k" -> "K"
      [] ch = "o" -> "O"
      [] ch = "s" -> "S"
      [] ch = "t" -> "T"
      [] OTHER -> ch

\* String.prototype.toUpperCase
UpperSeq(str) == [i \in 1..Len(str) |-> UpperChar(str[i])]

\* [A-Z] and [0-9] on the characters of the model
IsUpperLetter(ch) == ch \in {"N", "C", "O"}

IsDigit(ch) == ch = "1"

\* str.substring(from) and str.substring(0, to), indices as in JavaScript
SubstringFrom(str, from) ==
    IF from >= Len(str) THEN <<>> ELSE SubSeq(str, from + 1, Len(str))

SubstringTo(str, to) ==
    IF to >= Len(str) THEN str ELSE SubSeq(str, 1, to)

\* `!callsign`: null, undefined and "" are falsy
Falsy(callsign) == callsign = NullSeq \/ callsign = <<>>

\* isNNumber: /^N[0-9]{1,5}[A-Z]{0,2}$/ on the uppercased callsign
IsNNumber(callsign) ==
    /\ ~Falsy(callsign)
    /\ LET upper == UpperSeq(callsign)
       IN  /\ upper[1] = "N"
           /\ \E digits \in 1..5, letters \in 0..2 :
                 /\ Len(upper) = 1 + digits + letters
                 /\ \A i \in 2..(1 + digits) : IsDigit(upper[i])
                 /\ \A i \in (2 + digits)..Len(upper) : IsUpperLetter(upper[i])

\* isConcorde: the uppercased callsign starts with CONC
IsConcorde(callsign) ==
    /\ ~Falsy(callsign)
    /\ Len(callsign) >= 4
    /\ SubstringTo(UpperSeq(callsign), 4) = <<"C", "O", "N", "C">>

\* isIataCode: /^[A-Z]{2}[0-9]/ on the uppercased callsign
IsIataCode(callsign) ==
    /\ ~Falsy(callsign)
    /\ Len(callsign) >= 3
    /\ LET upper == UpperSeq(callsign)
       IN  IsUpperLetter(upper[1]) /\ IsUpperLetter(upper[2]) /\ IsDigit(upper[3])

\* extractAirlinePrefix
ExtractAirlinePrefix(callsign) ==
    IF Falsy(callsign) \/ Len(callsign) < 3 THEN NullSeq
    ELSE LET prefix == UpperSeq(SubstringTo(callsign, 3))
         IN  IF \A i \in 1..3 : IsUpperLetter(prefix[i]) THEN prefix ELSE NullSeq

\* extractFlightNumber
ExtractFlightNumber(callsign) ==
    IF Falsy(callsign) \/ Len(callsign) <= 3 THEN NullSeq
    ELSE IF ExtractAirlinePrefix(callsign) = NullSeq THEN NullSeq
    ELSE LET flightNumber == UpperSeq(SubstringFrom(callsign, 3))
         IN  IF flightNumber = <<>> THEN NullSeq ELSE flightNumber

\* the airline table of /config/airlines.json
AirlineTable ==
    { [prefix |-> <<"C", "O", "N">>, name |-> "Conair", website |-> "conair.example"],
      [prefix |-> <<"N", "C", "O">>, name |-> "Nordic", website |-> "nordic.example"] }

\* airlinesCache: null before the load, {} when the load failed, the table
AirlineCaches ==
    { [loaded |-> FALSE, entries |-> {}],
      [loaded |-> TRUE, entries |-> {}],
      [loaded |-> TRUE, entries |-> AirlineTable] }

\* the rule getAirlineInfo applies: the order of its tests (a variant with
\* the three-letter prefix tested first, for C13)
AirlineRulePrefixFirst(callsign) ==
    IF ExtractAirlinePrefix(callsign) # NullSeq THEN "prefix"
    ELSE IF IsNNumber(callsign) THEN "private"
    ELSE IF IsConcorde(callsign) THEN "concorde"
    ELSE IF IsIataCode(callsign) THEN "iata"
    ELSE "prefix"

\* the rule getAirlineInfo applies: the order of its tests
AirlineRule(callsign) ==
    IF IsNNumber(callsign) THEN "private"
    ELSE IF IsConcorde(callsign) THEN "concorde"
    ELSE IF IsIataCode(callsign) THEN "iata"
    ELSE "prefix"

\* a call that ends in a TypeError
Thrown ==
    [threw |-> TRUE, prefix |-> NullSeq, name |-> Null, website |-> Null,
     flightNumber |-> NullSeq]

Returned(prefix, name, website, flightNumber) ==
    [threw |-> FALSE, prefix |-> prefix, name |-> name, website |-> website,
     flightNumber |-> flightNumber]

\* getAirlineInfo(callsign) with airlinesCache = cache
GetAirlineInfo(cache, callsign) ==
    LET rule == AirlineRule(callsign)
    IN  IF rule = "private"
        THEN Returned(UpperSeq(callsign), "Private (United States)", Null, NullSeq)
        ELSE IF rule = "concorde"
        THEN Returned(<<"C", "O", "N", "C">>, "Concorde", Null,
                      LET rest == UpperSeq(SubstringFrom(callsign, 4))
                      IN  IF rest = <<>> THEN NullSeq ELSE rest)
        ELSE IF rule = "iata"
        THEN Returned(UpperSeq(SubstringTo(callsign, 2)),
                      "Unknown Airline (IATA Code)", Null, NullSeq)
        ELSE LET prefix == ExtractAirlinePrefix(callsign)
                 flightNumber == ExtractFlightNumber(callsign)
             IN  IF prefix = NullSeq \/ ~cache.loaded
                 THEN IF prefix # NullSeq
                      THEN Returned(prefix, Null, Null, flightNumber)
                      ELSE IF callsign = NullSeq
                      THEN Thrown
                      ELSE Returned(UpperSeq(SubstringTo(callsign, 3)),
                                    Null, Null, flightNumber)
                 ELSE IF \E airline \in cache.entries : airline.prefix = prefix
                 THEN LET airline == CHOOSE a \in cache.entries : a.prefix = prefix
                      IN  Returned(prefix, airline.name, airline.website, flightNumber)
                 ELSE Returned(prefix, Null, Null, flightNumber)

(***************************************************************************)
(* The airline harness: getAirlineInfo on every short callsign.            *)
(***************************************************************************)
\* longer callsigns on the edges of the patterns
LongCallsigns ==
    { <<"N", "1", "1", "1", "1", "1">>,
      <<"N", "1", "1", "1", "1", "1", "1">>,
      <<"N", "1", "1", "1", "1", "1", "C", "C">>,
      <<"N", "1", "1", "1", "1", "1", "C", "C", "C">>,
      <<"N", "1", "C", "C", "C">>,
      <<"c", "O", "N", "C", "1", "c">>,
      <<"C", "O", "N", "1", "1", "c">>,
      <<"n", "c", "O", "-", "1", "c">> }

\* every callsign of up to MaxCallsign characters, the longer ones, and an
\* absent callsign
Callsigns ==
    UNION {[1..n -> Alphabet] : n \in 0..MaxCallsign}
        \cup LongCallsigns \cup {NullSeq}

NoAirlineCall ==
    [called |-> FALSE, callsign |-> <<>>, cache |-> [loaded |-> FALSE, entries |-> {}],
     result |-> Returned(NullSeq, Null, Null, NullSeq)]

\* getAirlineInfo(callsign)
ClassifyAirline ==
    /\ ~airlineCall.called
    /\ \E callsign \in Callsigns, cache \in AirlineCaches :
          airlineCall' = [called |-> TRUE, callsign |-> callsign, cache |-> cache,
                          result |-> GetAirlineInfo(cache, callsign)]
    /\ UNCHANGED <<appVars, pipeVars, stageCall, parseCall, searchCall,
                   airlinesCache, fetchCall>>

(***************************************************************************)
(* airports.js: parseVATSpyData.  A line is a sequence of tokens: " " is   *)
(* white space, "|" the separator, every other token a run of characters   *)
(* without either.                                                         *)
(***************************************************************************)
\* String.prototype.trim
RECURSIVE TrimStart(_)
TrimStart(tokens) ==
    IF tokens # <<>> /\ Head(tokens) = " " THEN TrimStart(Tail(tokens)) ELSE tokens

RECURSIVE TrimEnd(_)
TrimEnd(tokens) ==
    IF tokens # <<>> /\ tokens[Len(tokens)] = " "
    THEN TrimEnd(SubSeq(tokens, 1, Len(tokens) - 1))
    ELSE tokens

Trim(tokens) == TrimEnd(TrimStart(tokens))

\* String.prototype.split('|'): the parts between the separators
RECURSIVE SplitOnPipe(_, _)
SplitOnPipe(tokens, part) ==
    IF tokens = <<>> THEN <<part>>
    ELSE IF Head(tokens) = "|" THEN <<part>> \o SplitOnPipe(Tail(tokens), <<>>)
    ELSE SplitOnPipe(Tail(tokens), Append(part, Head(tokens)))

\* the text of a trimmed part: its one token, or "" (the parts of the model
\* hold at most one token beside white space)
PartText(part) == IF Trim(part) = <<>> THEN "" ELSE Trim(part)[1]

\* trimmed.startsWith('[') and trimmed.startsWith(';')
StartsWithBracket(trimmed) ==
    trimmed # <<>> /\ Head(trimmed) \in {"[Airports]", "[Countries]", "[airports]"}

StartsWithSemicolon(trimmed) == trimmed # <<>> /\ Head(trimmed) = ";"

\* a header that opens the airports section whatever it names (a variant,
\* for C15)
OpensAirportsSectionAlways(trimmed) == StartsWithBracket(trimmed)

\* trimmed === '[Airports]'
OpensAirportsSection(trimmed) == trimmed = <<"[Airports]">>

\* NaN, the result of parseFloat on text that does not start with a number
NaN == -99999

\* parseFloat

ParseFloat(part) ==
    LET text == PartText(part)
    IN  CASE text = "40" -> 40
          [] text = "0"  -> 0
          [] text = "1"  -> 1
          [] OTHER -> NaN

\* the body of the loop for a data line of the airports section: the map
\* with the airport of the line set, or the map as it was
ParseAirportLine(trimmed, airports) ==
    LET parts == SplitOnPipe(trimmed, <<>>)
    IN  IF Len(parts) >= 6
        THEN LET icao == ToUpperCase(PartText(parts[1]))
                 lat == ParseFloat(parts[3])
                 lon == ParseFloat(parts[4])
                 iata == IF PartText(parts[5]) = "" THEN Null ELSE PartText(parts[5])
                 isPseudo == Len(parts) >= 7 /\ parts[7] = <<"1">>
             IN  IF ~isPseudo /\ lat # NaN /\ lon # NaN
                 THEN {a \in airports : a.icao # icao}
                          \cup {[icao |-> icao, name |-> PartText(parts[2]),
                                  lat |-> lat, lon |-> lon, iata |-> iata,
                                  fir |-> PartText(parts[6])]}
                 ELSE airports
        ELSE airports

\* the loop of parseVATSpyData over the lines left
RECURSIVE ParseLines(_, _, _)
ParseLines(lines, inAirportsSection, airports) ==
    IF lines = <<>> THEN airports
    ELSE LET trimmed == Trim(Head(lines))
         IN  IF StartsWithBracket(trimmed)
             THEN ParseLines(Tail(lines), OpensAirportsSection(trimmed), airports)
             ELSE IF trimmed = <<>> \/ StartsWithSemicolon(trimmed)
             THEN ParseLines(Tail(lines), inAirportsSection, airports)
             ELSE IF inAirportsSection
             THEN ParseLines(Tail(lines), inAirportsSection,
                             ParseAirportLine(trimmed, airports))
             ELSE ParseLines(Tail(lines), inAirportsSection, airports)

\* parseVATSpyData(content), content.split('\n') being `lines`
ParseVATSpyData(lines) == ParseLines(lines, FALSE, {})

(***************************************************************************)
(* The parser harness: a reference text built line by line, then parsed.   *)
(***************************************************************************)
\* ICAO|Name|Lat|Lon|IATA|FIR and what follows
AirportLine(icao, lat, lon, rest) ==
    <<icao, "|", "Kennedy", "|", lat, "|", lon, "|", "JFK", "|", "ZNY">> \o rest

\* the lines of the model: headers (exact, padded, other sections, another
\* spelling), blank lines, a comment that looks like data, a line of five
\* fields, data lines with and without a seventh field, with non-numeric
\* coordinates, with a lower-case and a padded ICAO
ReferenceLines ==
    { <<"[Airports]">>, <<" ", "[Airports]", " ">>, <<"[Countries]">>, <<"[airports]">>,
      <<>>, <<" ">>,
      <<";">> \o AirportLine("KBOS", "40", "40", <<>>),
      <<"KBOS", "|", "Boston", "|", "40", "|", "40", "|", "BOS">>,
      AirportLine("kjfk", "40", "0", <<>>),
      AirportLine("KBOS", "40", "40", <<"|", "0">>),
      AirportLine("KBOS", "40", "40", <<"|", "1">>),
      AirportLine("KATL", "x", "40", <<>>),
      AirportLine("KATL", "40", "x", <<"|", "0">>),
      <<" ", "KATL", " ", "|", "Atlanta", "|", " ", "1", "|", "0", "|", " ", "|", "ZTL", " ">> }

NoParseCall == [lines |-> <<>>, parsed |-> FALSE, airports |-> {}]

\* one more line of the reference text
AddLine ==
    /\ Len(parseCall.lines) < MaxLines
    /\ \E line \in ReferenceLines :
          parseCall' = [lines |-> Append(parseCall.lines, line),
                        parsed |-> FALSE, airports |-> {}]
    /\ UNCHANGED <<appVars, pipeVars, stageCall, airlineCall, searchCall,
                   airlinesCache, fetchCall>>

\* airportsCache = parseVATSpyData(content)
ParseText ==
    /\ ~parseCall.parsed
    /\ parseCall' = [parseCall EXCEPT !.parsed = TRUE,
                                      !.airports = ParseVATSpyData(parseCall.lines)]
    /\ UNCHANGED <<appVars, pipeVars, stageCall, airlineCall, searchCall,
                   airlinesCache, fetchCall>>

(***************************************************************************)
(* airports.js: searchAirports.  Strings are sequences of characters.      *)
(***************************************************************************)
\* String.prototype.includes
Includes(str, sub) ==
    \E from \in 0..(Len(str) - Len(sub)) :
        \A i \in 1..Len(sub) : str[from + i] = sub[i]

\* the test of the loop: ICAO, name in capitals, or IATA code in capitals
SearchMatches(airport, upperQuery) ==
    \/ Includes(airport.icao, upperQuery)
    \/ Includes(UpperSeq(airport.name), upperQuery)
    \/ airport.iata # NullSeq /\ Includes(UpperSeq(airport.iata), upperQuery)

\* the loop over airportsCache.values(): push, then break at `limit` results
RECURSIVE SearchLoop(_, _, _, _)
SearchLoop(airports, upperQuery, limit, results) ==
    IF airports = <<>> THEN results
    ELSE IF SearchMatches(Head(airports), upperQuery)
    THEN LET pushed == Append(results, Head(airports))
         IN  IF Len(pushed) >= limit THEN pushed
             ELSE SearchLoop(Tail(airports), upperQuery, limit, pushed)
    ELSE SearchLoop(Tail(airports), upperQuery, limit, results)

\* searchAirports(query, limit) with airportsCache holding `airports` in
\* insertion order, or null
SearchAirports(loaded, airports, text, limit) ==
    IF ~loaded \/ text = <<>> THEN <<>>
    ELSE SearchLoop(airports, UpperSeq(text), limit, <<>>)

(***************************************************************************)
(* The search harness.                                                     *)
(***************************************************************************)
\* the airports of the table, in the order of the reference text
SearchTable ==
    << [icao |-> <<"K", "J", "F", "K">>, name |-> <<"K", "e", "n", "n", "e", "d", "y">>,
        iata |-> <<"J", "F", "K">>],
       [icao |-> <<"K", "B", "O", "S">>, name |-> <<"B", "o", "s", "t", "o", "n">>,
        iata |-> <<"B", "O", "S">>],
       [icao |-> <<"K", "A", "T", "L">>, name |-> <<"A", "t", "l", "a", "n", "t", "a">>,
        iata |-> NullSeq],
       [icao |-> <<"E", "K", "C", "H">>, name |-> <<"K", "a", "s", "t", "r", "u", "p">>,
        iata |-> <<"c", "p", "h">>] >>

\* queries: empty, one letter in either case, parts of an ICAO, of a name,
\* of an IATA code, and one that matches nothing
SearchQueries ==
    { <<>>, <<"K">>, <<"k">>, <<"j", "f">>, <<"O", "S">>, <<"n", "n">>,
      <<"a", "t">>, <<"A", "S", "T">>, <<"C", "P">>, <<"Z", "Z">> }

NoSearchCall ==
    [called |-> FALSE, loaded |-> FALSE, airports |-> <<>>, query |-> <<>>,
     limit |-> 0, result |-> <<>>]

\* searchAirports(query, limit) on a table of the first n airports
Search ==
    /\ ~searchCall.called
    /\ \E loaded \in BOOLEAN, n \in 0..Len(SearchTable), text \in SearchQueries,
          limit \in 0..MaxLimit :
          /\ loaded \/ n = 0
          /\ LET airports == SubSeq(SearchTable, 1, n)
             IN  searchCall' = [called |-> TRUE, loaded |-> loaded,
                                airports |-> airports, query |-> text,
                                limit |-> limit,
                                result |-> SearchAirports(loaded, airports, text, limit)]
    /\ UNCHANGED <<appVars, pipeVars, stageCall, airlineCall, parseCall,
                   airlinesCache, fetchCall>>

(***************************************************************************)
(* The fetch operations: fetchVatsimData (vatsim.js), fetchAirports        *)
(* (airports.js) and fetchAirlines (airlines.js).                          *)
(***************************************************************************)
\* what the network does with one request: the body arrives and parses,
\* fetch() rejects, the status is not ok, or reading the body rejects
Responses == {"ok", "rejected", "badStatus", "badBody"}

\* the try block completes only for a response that is ok and readable
Retrieved(response) == response = "ok"

NoFetchCall ==
    [fn |-> Null, response |-> Null, requested |-> FALSE, threw |-> FALSE,
     value |-> Null, calls |-> 0]

FetchOutcome(fn, response, requested, threw, value) ==
    [fn |-> fn, response |-> response, requested |-> requested, threw |-> threw,
     value |-> value, calls |-> fetchCall.calls + 1]

\* fetchVatsimData(): no cache; the catch block logs and rethrows
FetchVatsimData ==
    /\ fetchCall.calls < MaxFetches
    /\ \E response \in Responses :
          fetchCall' = IF Retrieved(response)
                       THEN FetchOutcome("fetchVatsimData", response, TRUE, FALSE, "snapshot")
                       ELSE FetchOutcome("fetchVatsimData", response, TRUE, TRUE, Null)
    /\ UNCHANGED <<appVars, pipeVars, stageCall, airlineCall, parseCall, searchCall,
                   airlinesCache>>

\* fetchAirports(): the cached table if there is one; the catch block logs
\* and rethrows
FetchAirports ==
    /\ fetchCall.calls < MaxFetches
    /\ IF airportsCache
       THEN /\ fetchCall' = FetchOutcome("fetchAirports", Null, FALSE, FALSE, "table")
            /\ UNCHANGED airportsCache
       ELSE \E response \in Responses :
              IF Retrieved(response)
              THEN /\ airportsCache' = TRUE
                   /\ fetchCall' = FetchOutcome("fetchAirports", response, TRUE, FALSE, "table")
              ELSE /\ UNCHANGED airportsCache
                   /\ fetchCall' = FetchOutcome("fetchAirports", response, TRUE, TRUE, Null)
    /\ UNCHANGED <<state, timers, pending, innerHeight, run, refreshed, pipeVars, stageCall,
                   airlineCall, parseCall, searchCall, airlinesCache>>

\* fetchAirlines(): the cached object if there is one ({} is truthy); the
\* catch block logs, stores {} and returns it
FetchAirlines ==
    /\ fetchCall.calls < MaxFetches
    /\ IF airlinesCache # "null"
       THEN /\ fetchCall' = FetchOutcome("fetchAirlines", Null, FALSE, FALSE, airlinesCache)
            /\ UNCHANGED airlinesCache
       ELSE \E response \in Responses :
              IF Retrieved(response)
              THEN /\ airlinesCache' = "table"
                   /\ fetchCall' = FetchOutcome("fetchAirlines", response, TRUE, FALSE, "table")
              ELSE /\ airlinesCache' = "empty"
                   /\ fetchCall' = FetchOutcome("fetchAirlines", response, TRUE, FALSE, "empty")
    /\ UNCHANGED <<appVars, pipeVars, stageCall, airlineCall, parseCall, searchCall>>

(***************************************************************************)
(* app.js: the state object, the timers, rendering                         *)
(***************************************************************************)
Modes == {"dep", "arr", "pre"}

\* the airports navigateTo is called with: one of the table, one unknown
NavIcaos == {"KJFK", "ZZZZ"}

\* window.innerHeight: 4 and 5 flights per page
Heights == {600, 690}

\* the seconds the countdown starts and restarts at (the literal 15 of
\* `state`, cyclePre and the countdown callback)
CountdownInterval == 15

\* `const state = {...}`; countdownTimer is undefined until the first start
InitialState ==
    [icao |-> Null, mode |-> "dep", displayMode |-> "dep", airport |-> NoAirport,
     flights |-> <<>>, vatsimData |-> NoData, isLoading |-> TRUE, error |-> Null,
     refreshTimer |-> 0, cycleTimer |-> 0, countdownTimer |-> 0,
     preCountdown |-> CountdownInterval, currentPage |-> 0, totalPages |-> 1,
     flightsPerPage |-> 10]

\* the nine pilots of snapshot 1: all leave KJFK for KBOS
PilotsA ==
    [i \in 1..9 |->
        Pilot(i, FlightPlan("KJFK", "KBOS"),
              [latitude |-> 9, altitude |-> 2999, groundspeed |-> 51])]

\* the ten pilots of snapshot 2: five leave KJFK, four arrive there, one has
\* no flight plan and sits on the ground at KJFK
PilotsB ==
    [i \in 1..10 |->
        IF i <= 5
        THEN Pilot(i, FlightPlan("KJFK", "KATL"),
                   [latitude |-> 10, altitude |-> 2999, groundspeed |-> 50])
        ELSE IF i <= 9
        THEN Pilot(i, FlightPlan("KBOS", "KJFK"),
                   [latitude |-> 9, altitude |-> 3000, groundspeed |-> 400])
        ELSE Pilot(i, NoFlightPlan,
                   [latitude |-> 0, altitude |-> 0, groundspeed |-> 0])]

\* what fetchVatsimData() can resolve to
Snapshots ==
    { [present |-> TRUE, id |-> 1, pilots |-> PilotsA],
      [present |-> TRUE, id |-> 2, pilots |-> PilotsB] }

\* calculateFlightsPerPage(): Math.max(4, Math.floor((h - 300) / 65) - 1)
CalculateFlightsPerPage(h) == Max(4, ((h - 300) \div 65) - 1)

\* Math.ceil(state.flights.length / state.flightsPerPage)
PageCount(flightCount, perPage) == Ceil(flightCount, perPage)

\* the page check of renderFlights
PageAfterRender(currentPage, totalPages) ==
    IF currentPage >= totalPages THEN 0 ELSE currentPage

\* renderFlights(): the early returns, then the pagination it stores
RenderFlights(st, h) ==
    IF st.isLoading THEN st
    ELSE IF st.error # Null THEN st
    ELSE IF Len(st.flights) = 0 THEN st
    ELSE LET perPage == CalculateFlightsPerPage(h)
             total == PageCount(Len(st.flights), perPage)
         IN  [st EXCEPT !.flightsPerPage = perPage,
                        !.totalPages = total,
                        !.currentPage = PageAfterRender(st.currentPage, total)]

\* updateDisplay(): of its effects only renderFlights() changes `state`
UpdateDisplay(st, h) == RenderFlights(st, h)

\* a world: the state object with the browser's timers
World(st, tm) == [state |-> st, timers |-> tm]

\* the ids in use when the handle holding `old` is about to be overwritten:
\* those of the live timers and those the other handles of `state` hold
UsedIds(w, old) ==
    {t.id : t \in w.timers}
        \cup ({w.state.refreshTimer, w.state.cycleTimer, w.state.countdownTimer}
                 \ {old})

\* the id setInterval returns: a positive integer that no live timer and no
\* handle that survives the assignment has (ids are only compared for
\* equality, so the least such integer stands for any of them)
FreshId(w, old) ==
    CHOOSE n \in 1..(Cardinality(UsedIds(w, old)) + 1) :
        /\ n \notin UsedIds(w, old)
        /\ \A m \in 1..(n - 1) : m \in UsedIds(w, old)

\* clearInterval(id)
ClearInterval(w, id) == [w EXCEPT !.timers = {t \in @ : t.id # id}]

\* setInterval(handler, ...) whose result replaces the handle holding `old`
SetInterval(w, kind, old) ==
    [w EXCEPT !.timers = @ \cup {[id |-> FreshId(w, old), kind |-> kind]}]

\* stopPreCycle()
StopPreCycle(w) ==
    LET w1 == IF w.state.cycleTimer # 0
              THEN [ClearInterval(w, w.state.cycleTimer) EXCEPT !.state.cycleTimer = 0]
              ELSE w
    IN  IF w1.state.countdownTimer # 0
        THEN [ClearInterval(w1, w1.state.countdownTimer)
                 EXCEPT !.state.countdownTimer = 0]
        ELSE w1

\* startPreCycle()
StartPreCycle(w) ==
    LET w1 == IF w.state.cycleTimer # 0
              THEN ClearInterval(w, w.state.cycleTimer)
              ELSE w
        countdownTimer == FreshId(w1, w1.state.countdownTimer)
        w2 == SetInterval(w1, "countdown", w1.state.countdownTimer)
        cycleTimer == FreshId(w2, w2.state.cycleTimer)
        w3 == SetInterval(w2, "cycle", w2.state.cycleTimer)
    IN  [w3 EXCEPT !.state.cycleTimer = cycleTimer,
                   !.state.countdownTimer = countdownTimer]

\* startRefreshTimer()
StartRefreshTimer(w) ==
    LET w1 == IF w.state.refreshTimer # 0
              THEN ClearInterval(w, w.state.refreshTimer)
              ELSE w
    IN  [SetInterval(w1, "refresh", w1.state.refreshTimer)
            EXCEPT !.state.refreshTimer = FreshId(w1, w1.state.refreshTimer)]

\* the end of navigateTo, after `await refreshData()`
AfterRefresh(w, mode) ==
    LET w1 == StartRefreshTimer(w)
    IN  IF mode = "pre" THEN StartPreCycle(w1) ELSE w1

\* the first statement of refreshData(): nothing to fetch for
RefreshReturnsEarly(st) == ~Truthy(st.icao) \/ ~IsAirport(st.airport)

(***************************************************************************)
(* app.js: the handlers                                                    *)
(***************************************************************************)
\* getFlightsForAirport with selectedAirport null throws a TypeError as soon
\* as a pilot reaches `selectedAirport.lat`: a pilot without a declared
\* departure (the distance test), or one the filter includes (processPilot)
PipelineThrows(vatsimData, icao, mode, selectedAirport) ==
    /\ vatsimData.present
    /\ ~IsAirport(selectedAirport)
    /\ \E i \in 1..Len(vatsimData.pilots) :
          LET flightPlan == vatsimData.pilots[i].flight_plan
          IN  IF mode = "dep"
              THEN \/ flightPlan.present /\ flightPlan.departure = ToUpperCase(icao)
                   \/ ~flightPlan.present
                   \/ ~Truthy(flightPlan.departure)
              ELSE flightPlan.present /\ flightPlan.arrival = ToUpperCase(icao)

FetchError == "Failed to fetch flight data. Will retry..."

\* refreshData() from the `await` on, the fetch having resolved to `data`
RefreshResolved(st, data, h, loaded) ==
    LET st1 == [st EXCEPT !.vatsimData = data]
        st2 == IF PipelineThrows(data, st1.icao, st1.displayMode, st1.airport)
               THEN [st1 EXCEPT !.error = FetchError]
               ELSE [st1 EXCEPT !.flights =
                                    GetFlightsForAirport(loaded, data, st1.icao,
                                                         st1.displayMode, st1.airport),
                                !.error = Null]
    IN  UpdateDisplay([st2 EXCEPT !.isLoading = FALSE], h)

\* refreshData() from the `await` on, the fetch having been rejected
RefreshRejected(st, h) ==
    UpdateDisplay([st EXCEPT !.error = FetchError, !.isLoading = FALSE], h)

\* the other direction
Flip(displayMode) == IF displayMode = "dep" THEN "arr" ELSE "dep"

\* the test of cyclePre against totalPages itself (a variant, for C2)
HasMorePagesUpToTotal(st) == st.currentPage < st.totalPages

\* the test of cyclePre: is there another page in the current direction?
HasMorePages(st) == st.currentPage < st.totalPages - 1

\* cyclePre() flipping the direction and keeping the list (a variant, for
\* C18)
CyclePreHandlerKeepsList(st, h, loaded) ==
    LET st1 == [st EXCEPT !.preCountdown = CountdownInterval]
        st2 == IF HasMorePages(st1)
               THEN [st1 EXCEPT !.currentPage = @ + 1]
               ELSE [st1 EXCEPT !.displayMode = Flip(@), !.currentPage = 0]
    IN  UpdateDisplay(st2, h)

\* cyclePre()
CyclePreHandler(st, h, loaded) ==
    LET st1 == [st EXCEPT !.preCountdown = CountdownInterval]
        st2 == IF HasMorePages(st1)
               THEN [st1 EXCEPT !.currentPage = @ + 1]
               ELSE LET st3 == [st1 EXCEPT !.displayMode = Flip(@),
                                           !.currentPage = 0]
                    IN  IF st3.vatsimData.present /\ IsAirport(st3.airport)
                        THEN [st3 EXCEPT !.flights =
                                  GetFlightsForAirport(loaded, st3.vatsimData, st3.icao,
                                                       st3.displayMode, st3.airport)]
                        ELSE st3
    IN  UpdateDisplay(st2, h)

\* the countdown callback restarting one tick late (a variant, for C7)
CountdownHandlerBelowZero(st) ==
    LET st1 == [st EXCEPT !.preCountdown = @ - 1]
    IN  IF st1.preCountdown < 0
        THEN [st1 EXCEPT !.preCountdown = CountdownInterval]
        ELSE st1

\* the countdown callback of startPreCycle
CountdownHandler(st) ==
    LET st1 == [st EXCEPT !.preCountdown = @ - 1]
    IN  IF st1.preCountdown <= 0
        THEN [st1 EXCEPT !.preCountdown = CountdownInterval]
        ELSE st1

\* the resize listener of init()
ResizeHandler(st, h) ==
    IF st.mode = "pre" /\ Len(st.flights) > 0 THEN RenderFlights(st, h) ELSE st

\* navigateTo(icao, mode) up to `await refreshData()`
NavigateToSync(w, icao, mode, h, loaded) ==
    LET w1 == StopPreCycle(w)
        w2 == IF w1.state.refreshTimer # 0
              THEN ClearInterval(w1, w1.state.refreshTimer)
              ELSE w1
        st == [w2.state EXCEPT !.icao = ToUpperCase(icao),
                               !.mode = mode,
                               !.displayMode = IF mode = "pre" THEN "dep" ELSE mode,
                               !.isLoading = TRUE,
                               !.flights = <<>>,
                               !.error = Null,
                               !.currentPage = 0,
                               !.totalPages = 1,
                               !.airport = GetAirport(loaded, ToUpperCase(icao))]
    IN  [w2 EXCEPT !.state = UpdateDisplay(st, h)]

(***************************************************************************)
(* The observers.                                                          *)
(***************************************************************************)
NoRun == [valid |-> FALSE, n |-> 0, flips |-> 0, dir |-> "dep", tp |-> 1]

\* no refreshData() has just completed
NoRefresh == [done |-> FALSE, dir |-> "dep"]

\* a refreshData() that started while `dir` was the direction has completed
RefreshDone(dir) == [done |-> TRUE, dir |-> dir]

\* a rotation starts here: page 0 of a non-empty list whose page count is
\* the one of the list and the viewport
StartOfRotation(st, h) ==
    /\ st.currentPage = 0
    /\ Len(st.flights) >= 1
    /\ st.totalPages = Ceil(Len(st.flights), CalculateFlightsPerPage(h))

\* the run after an advance() that took `st` to `stNew`
RunAfterAdvance(r, st, stNew, h) ==
    LET flipped == IF stNew.displayMode # st.displayMode THEN 1 ELSE 0
    IN  IF r.valid /\ r.n < r.tp
        THEN [r EXCEPT !.n = @ + 1, !.flips = @ + flipped]
        ELSE IF StartOfRotation(st, h)
             THEN [valid |-> TRUE, n |-> 1, flips |-> flipped,
                   dir |-> st.displayMode, tp |-> st.totalPages]
             ELSE NoRun

\* the run after another handler: it goes on while the list keeps its size
RunAfterOther(r, st, stNew) ==
    IF r.valid /\ r.n < r.tp /\ Len(stNew.flights) = Len(st.flights) THEN r ELSE NoRun

(***************************************************************************)
(* The actions: one per handler or callback.                               *)
(***************************************************************************)
Install(w) ==
    /\ Cardinality(w.timers) <= MaxTimers
    /\ state' = w.state
    /\ timers' = w.timers

\* navigateTo(icao, mode), called by init, the tabs, the form and popstate;
\* `limit` bounds the suspended refreshData() calls
NavigateTo(limit) ==
    /\ \E icao \in NavIcaos, mode \in Modes :
          LET w == NavigateToSync(World(state, timers), icao, mode,
                                  innerHeight, airportsCache)
          IN  IF RefreshReturnsEarly(w.state)
              THEN /\ Install(AfterRefresh(w, mode))
                   /\ pending' = pending
              ELSE /\ Len(pending) < limit
                   /\ Install(w)
                   /\ pending' = Append(pending, [src |-> "nav", mode |-> mode,
                                              dir |-> w.state.displayMode])
    /\ run' = NoRun
    /\ refreshed' = NoRefresh
    /\ UNCHANGED <<innerHeight, airportsCache>>
    /\ UNCHANGED <<pipeVars, pureVars>>

\* the refresh timer fires: refreshData() runs up to its `await`
RefreshTick(limit) ==
    /\ \E t \in timers : t.kind = "refresh"
    /\ IF RefreshReturnsEarly(state)
       THEN pending' = pending
       ELSE /\ Len(pending) < limit
            /\ pending' = Append(pending, [src |-> "timer", mode |-> "-",
                                            dir |-> state.displayMode])
    /\ refreshed' = NoRefresh
    /\ UNCHANGED <<state, timers, innerHeight, airportsCache, run>>
    /\ UNCHANGED <<pipeVars, pureVars>>

\* pending without entry i
Remaining(i) ==
    [j \in 1..(Len(pending) - 1) |-> IF j < i THEN pending[j] ELSE pending[j + 1]]

\* a suspended refreshData() resumes with a snapshot; the navigateTo that
\* awaits it goes on
RefreshSucceeds ==
    /\ \E i \in 1..Len(pending), data \in Snapshots :
          LET st == RefreshResolved(state, data, innerHeight, airportsCache)
              w == World(st, timers)
          IN  /\ Install(IF pending[i].src = "nav"
                         THEN AfterRefresh(w, pending[i].mode)
                         ELSE w)
              /\ pending' = Remaining(i)
              /\ run' = RunAfterOther(run, state, st)
              /\ refreshed' = RefreshDone(pending[i].dir)
    /\ UNCHANGED <<innerHeight, airportsCache>>
    /\ UNCHANGED <<pipeVars, pureVars>>

\* a suspended refreshData() resumes with the fetch rejected
RefreshFails ==
    /\ \E i \in 1..Len(pending) :
          LET st == RefreshRejected(state, innerHeight)
              w == World(st, timers)
          IN  /\ Install(IF pending[i].src = "nav"
                         THEN AfterRefresh(w, pending[i].mode)
                         ELSE w)
              /\ pending' = Remaining(i)
              /\ run' = RunAfterOther(run, state, st)
    /\ refreshed' = NoRefresh
    /\ UNCHANGED <<innerHeight, airportsCache>>
    /\ UNCHANGED <<pipeVars, pureVars>>

\* the cycle timer fires
CyclePre ==
    /\ \E t \in timers : t.kind = "cycle"
    /\ state' = CyclePreHandler(state, innerHeight, airportsCache)
    /\ run' = RunAfterAdvance(run, state, state', innerHeight)
    /\ refreshed' = NoRefresh
    /\ UNCHANGED <<timers, pending, innerHeight, airportsCache>>
    /\ UNCHANGED <<pipeVars, pureVars>>

\* a countdown timer fires; the model follows the countdown for `ticks`
\* ticks after each reset
CountdownTick(ticks) ==
    /\ \E t \in timers : t.kind = "countdown"
    /\ state.preCountdown > CountdownInterval - ticks
    /\ state' = CountdownHandler(state)
    /\ refreshed' = NoRefresh
    /\ UNCHANGED <<timers, pending, innerHeight, airportsCache, run>>
    /\ UNCHANGED <<pipeVars, pureVars>>

\* the window is resized
Resize ==
    /\ \E h \in Heights \ {innerHeight} :
          /\ innerHeight' = h
          /\ state' = ResizeHandler(state, h)
    /\ run' = NoRun
    /\ refreshed' = NoRefresh
    /\ UNCHANGED <<timers, pending, airportsCache>>
    /\ UNCHANGED <<pipeVars, pureVars>>

(***************************************************************************)
(* The specifications.                                                     *)
(***************************************************************************)
AppInit ==
    /\ state = InitialState
    /\ timers = {}
    /\ pending = <<>>
    /\ innerHeight \in Heights
    /\ airportsCache \in BOOLEAN
    /\ run = NoRun
    /\ refreshed = NoRefresh

PipeInit ==
    /\ pilots = <<>>
    /\ query = NoQuery
    /\ result = <<>>

PureInit ==
    /\ stageCall = NoStageCall
    /\ airlineCall = NoAirlineCall
    /\ parseCall = NoParseCall
    /\ searchCall = NoSearchCall
    /\ airlinesCache = "null"
    /\ fetchCall = NoFetchCall

Init == AppInit /\ PipeInit /\ PureInit

Next ==
    \/ NavigateTo(MaxPending)
    \/ RefreshTick(MaxPending)
    \/ RefreshSucceeds
    \/ RefreshFails
    \/ CyclePre
    \/ CountdownTick(MaxTicks)
    \/ Resize

\* the application: refreshes and navigations may overlap
Spec == Init /\ [][Next]_vars

NextSerial ==
    \/ NavigateTo(1)
    \/ RefreshTick(1)
    \/ RefreshSucceeds
    \/ RefreshFails
    \/ CyclePre
    \/ CountdownTick(CountdownInterval)
    \/ Resize

\* the application with at most one snapshot fetch in flight; the countdown
\* is followed all the way round
SpecSerial == Init /\ [][NextSerial]_vars

PipeInitAll ==
    /\ PipeInit
    /\ PureInit
    /\ AppInit
    /\ innerHeight = 600
    /\ airportsCache = TRUE

PipeNext == AddPilot \/ RunPipeline

\* the pipeline on every snapshot of up to MaxPilots pilots
SpecPipe == PipeInitAll /\ [][PipeNext]_vars

(***************************************************************************)
(* The preview rotation: advance() is cyclePre().                          *)
(***************************************************************************)
\* C1: every advance() moves to the next page and keeps the direction when
\* currentPage < totalPages - 1, and otherwise flips the direction and goes
\* to page 0; the countdown is 15 after it.
C1_AdvanceStep ==
    [][CyclePre =>
          /\ state'.preCountdown = 15
          /\ IF state.currentPage < state.totalPages - 1
             THEN /\ state'.currentPage = state.currentPage + 1
                  /\ state'.displayMode = state.displayMode
             ELSE /\ state'.displayMode # state.displayMode
                  /\ state'.displayMode \in DisplayModes
                  /\ state'.currentPage = 0]_vars

\* C2: from page 0 of a non-empty list of totalPages pages whose size does
\* not change, the first totalPages - 1 advance() calls visit pages 1, 2, ...
\* in the same direction, and the last one flips the direction, once, and
\* returns to page 0.
C2_FullRotation ==
    run.valid =>
        /\ run.n \in 1..run.tp
        /\ run.n < run.tp =>
              /\ state.currentPage = run.n
              /\ state.displayMode = run.dir
              /\ run.flips = 0
        /\ run.n = run.tp =>
              /\ state.currentPage = 0
              /\ state.displayMode = Flip(run.dir)
              /\ run.flips = 1

\* three advance() calls over three pages have come back to page 0
C2_ThreeAdvancesDone == run.valid /\ run.tp = 3 /\ run.n = 3 /\ run.flips = 1

\* the list of `state` has just been replaced and rendered: a refresh has
\* resolved, or an advance() has flipped the direction, and the board shows
\* neither the loading nor the error state
ListReplacedAndRendered ==
    /\ RefreshSucceeds \/ (CyclePre /\ state'.displayMode # state.displayMode)
    /\ state'.error = Null
    /\ ~state'.isLoading

\* C3: after the flight list is replaced and the board re-rendered,
\* totalPages = max(1, ceil(flightCount / pageSize)) and currentPage <
\* totalPages, for every flight count including 0.
C3_RecomputeOnReplace ==
    [][ListReplacedAndRendered =>
          /\ state'.totalPages =
                 Max(1, Ceil(Len(state'.flights), CalculateFlightsPerPage(innerHeight)))
          /\ state'.currentPage < state'.totalPages]_vars

\* C4: after stopPreCycle() no cycle timer and no countdown timer is active,
\* whatever navigations came before, and a second stopPreCycle() changes
\* nothing.
C4_StopHaltsBothTimers ==
    LET stopped == StopPreCycle(World(state, timers))
    IN  /\ \A t \in stopped.timers : t.kind = "refresh"
        /\ StopPreCycle(stopped) = stopped

\* C5: at most one refresh pass (a suspended refreshData()) is in flight.
C5_OneRefreshInFlight == Len(pending) <= 1

\* preview rotation is started in this step: a navigateTo(..., 'pre') goes on
\* after its refreshData(), which returned at once or has just resumed
StartsRotation ==
    \/ /\ NavigateTo(MaxPending)
       /\ pending' = pending
       /\ state'.mode = "pre"
    \/ /\ RefreshSucceeds \/ RefreshFails
       /\ \E i \in 1..Len(pending) :
             /\ pending[i].src = "nav"
             /\ pending[i].mode = "pre"
             /\ pending' = Remaining(i)

\* C6: whenever preview rotation is started, the rotation state is page 0,
\* direction departure, countdown 15.
C6_RotationStartState ==
    [][StartsRotation =>
          /\ state'.currentPage = 0
          /\ state'.displayMode = "dep"
          /\ state'.preCountdown = 15]_vars

\* C7: a countdown tick takes the countdown from c to c - 1, or to 15 when
\* c - 1 is 0, and changes nothing else of the state or the timers; the
\* countdown is always in 1..15.
C7_CountdownTick ==
    /\ [](state.preCountdown \in 1..15)
    /\ [][CountdownTick(CountdownInterval) =>
             /\ state' = [state EXCEPT !.preCountdown =
                                          IF state.preCountdown - 1 = 0
                                          THEN 15
                                          ELSE state.preCountdown - 1]
             /\ timers' = timers]_vars

\* the countdown is about to wrap on the second page of a rotation
C7_LastSecondOfPageTwo ==
    /\ state.preCountdown = 1
    /\ state.currentPage = 1
    /\ \E t \in timers : t.kind = "countdown"

(***************************************************************************)
(* The pipeline.                                                           *)
(***************************************************************************)
\* the pipeline has run on the snapshot `pilots`
PipelineRan == query.icao # Null

\* the queried ICAO in upper case: every spelling of QueryIcaos names KJFK
QueriedIcao == "KJFK"

\* the queried airport
QueriedAirport == GetAirport(TRUE, query.icao)

\* the inclusion rule of a direction, as the specification words it
InclusionRule(p) ==
    LET plan == p.flight_plan
        declaresDeparture == plan.present /\ plan.departure # "" /\ plan.departure # Null
        distance == Haversine(p.latitude, p.longitude,
                              QueriedAirport.lat, QueriedAirport.lon)
    IN  IF query.mode = "dep"
        THEN \/ plan.present /\ plan.departure = QueriedIcao
             \/ ~declaresDeparture /\ distance < Nm(10) /\ p.altitude < 3000
        ELSE plan.present /\ plan.arrival = QueriedIcao

\* C8: the result holds exactly one entry per pilot satisfying the inclusion
\* rule of the direction, and no other entry.
C8_ExactlyTheIncluded ==
    PipelineRan =>
        /\ \A i \in 1..Len(pilots) :
              Cardinality({j \in 1..Len(result) : result[j].cid = i})
                  = IF InclusionRule(pilots[i]) THEN 1 ELSE 0
        /\ \A j \in 1..Len(result) : result[j].cid \in 1..Len(pilots)

\* a departure query over two aircraft without a flight plan, one low and
\* near, the other near at 3000 ft: only the first is listed
C8_OneOfTwoNearby ==
    /\ PipelineRan
    /\ query.mode = "dep"
    /\ Len(pilots) = 2
    /\ \A i \in 1..2 : ~pilots[i].flight_plan.present /\ pilots[i].latitude = 9
    /\ pilots[2].altitude = 3000
    /\ Len(result) = 1
    /\ result[1].cid = 1

\* the leg of the flight plan opposite to the query direction ("" if absent)
OppositeLeg(p) ==
    LET declared == IF query.mode = "dep"
                    THEN p.flight_plan.arrival
                    ELSE p.flight_plan.departure
    IN  IF p.flight_plan.present /\ declared # Null THEN declared ELSE ""

C10_EteWhenMoving ==
    PipelineRan =>
        \A j \in 1..Len(result) :
            LET f == result[j]
                p == pilots[f.cid]
                distance == Haversine(p.latitude, p.longitude,
                                      QueriedAirport.lat, QueriedAirport.lon)
            IN  /\ f.distanceFromAirport = distance
                /\ (f.ete # NullNum) <=> (p.groundspeed > 50 /\ distance > 0)
                /\ f.ete # NullNum =>
                      /\ f.ete * p.groundspeed <= distance * 60
                      /\ distance * 60 < (f.ete + 1) * p.groundspeed

\* a departure query lists one aircraft at exactly 50 kts away from the
\* airport (no ete) and one at 51 kts (ete 10.595 minutes)
C10_At50AndAbove ==
    /\ PipelineRan
    /\ Len(result) = 2
    /\ \E i, j \in 1..2 :
          /\ result[i].groundspeed = 50
          /\ result[i].distanceFromAirport > 0
          /\ result[i].ete = NullNum
          /\ result[j].groundspeed = 51
          /\ result[j].ete = 10595

\* the pilots of the snapshot the inclusion rule admits, in snapshot order
IncludedCids == {i \in 1..Len(pilots) : InclusionRule(pilots[i])}

\* the alphabetical position of the route names of the model
AlphabeticalRank(name) ==
    CASE name = "Atlanta" -> 1
      [] name = "Boston"  -> 2
      [] name = "Kennedy" -> 3
      [] OTHER -> 4

\* C11: the result is a permutation of the enriched included flights, in
\* ascending order of routeName, and flights with equal routeName keep the
\* order their pilots have in the snapshot.
C11_SortedAndStable ==
    PipelineRan =>
        /\ Len(result) = Cardinality(IncludedCids)
        /\ {result[j].cid : j \in 1..Len(result)} = IncludedCids
        /\ \A j \in 1..Len(result) :
              result[j] = ProcessPilot(TRUE, pilots[result[j].cid],
                                       QueriedAirport, query.mode)
        /\ \A j, k \in 1..Len(result) :
              j < k =>
                 /\ AlphabeticalRank(result[j].routeName)
                        <= AlphabeticalRank(result[k].routeName)
                 /\ result[j].routeName = result[k].routeName
                        => result[j].cid < result[k].cid

\* two departures with the same route name "Unknown" (no arrival, an arrival
\* airport that is not in the table) are listed in snapshot order
C11_TieKeepsSnapshotOrder ==
    /\ PipelineRan
    /\ query.mode = "dep"
    /\ Len(result) = 2
    /\ result[1].routeName = "Unknown" /\ result[2].routeName = "Unknown"
    /\ result[1].routeIcao = "ZZZZ" /\ result[2].routeIcao = "Unknown"
    /\ result[1].cid = 1

(***************************************************************************)
(* The stage classifier.                                                   *)
(***************************************************************************)
\* the calls of the pure functions, one function per step
StageNext == DetectStage

\* detectFlightStage on every combination of the corner values
SpecStage == PipeInitAll /\ [][StageNext]_vars

\* the distance to an airport, when the airport is known
StageDistance(airport) ==
    Haversine(stageCall.pilot.latitude, stageCall.pilot.longitude,
              airport.lat, airport.lon)

\* an airport is known and nearer than `limit` nautical miles
StageWithin(airport, limit) ==
    airport # NoAirport /\ StageDistance(airport) < limit * 1000

\* the departure airport is strictly nearer than the arrival airport, an
\* unknown airport being farther than any known one
StageDepNearer ==
    /\ stageCall.depAirport # NoAirport
    /\ \/ stageCall.arrAirport = NoAirport
       \/ StageDistance(stageCall.depAirport) < StageDistance(stageCall.arrAirport)

\* the ordered chain of the specification
StageChain ==
    LET altitude == stageCall.pilot.altitude
    IN  IF stageCall.pilot.groundspeed < 50 /\ altitude < 500 THEN "ground"
        ELSE IF altitude < 10000 /\ StageWithin(stageCall.depAirport, 50)
             THEN "departing"
        ELSE IF altitude < 10000 /\ StageWithin(stageCall.arrAirport, 100)
             THEN "arriving"
        ELSE IF altitude > 25000 THEN "cruising"
        ELSE IF StageDepNearer THEN "departing"
        ELSE "arriving"

\* C12: the stage classifier returns the result of the ordered chain ground,
\* departing (near departure), arriving (near arrival), cruising, nearer
\* airport; an unknown airport never satisfies a proximity threshold, and
\* with both airports unknown a non-ground flight at or below 25000 ft is
\* arriving.
C12_StageChain ==
    stageCall.called =>
        /\ stageCall.stage = StageChain
        /\ (/\ stageCall.depAirport = NoAirport
            /\ stageCall.arrAirport = NoAirport
            /\ ~(stageCall.pilot.groundspeed < 50 /\ stageCall.pilot.altitude < 500)
            /\ stageCall.pilot.altitude <= 25000) => stageCall.stage = "arriving"

\* at 50 kts and 499 ft with the arrival airport unknown and the departure
\* airport 330 nm away, the tie-break classifies the flight as departing
C12_TieBreakUnknownArrival ==
    /\ stageCall.called
    /\ stageCall.pilot.groundspeed = 50
    /\ stageCall.pilot.altitude = 499
    /\ stageCall.pilot.latitude = -330
    /\ stageCall.depAirport.icao = "KJFK"
    /\ stageCall.arrAirport = NoAirport
    /\ stageCall.stage = "departing"

(***************************************************************************)
(* The airline classifier.                                                 *)
(***************************************************************************)
AirlineNext == ClassifyAirline

\* getAirlineInfo on every callsign of the model, with every table state
SpecAirline == PipeInitAll /\ [][AirlineNext]_vars

\* the capital letters and the digits a callsign of the model is made of
CapitalLetters == {"N", "C", "O"}

DecimalDigits == {"1"}

\* the classified callsign in capitals ("" for an absent one)
CallsignInCapitals ==
    IF airlineCall.callsign = NullSeq THEN <<>> ELSE UpperSeq(airlineCall.callsign)

\* the characters of `str` behind the first n ("" when there are none)
Behind(str, n) == [i \in 1..(IF Len(str) > n THEN Len(str) - n ELSE 0) |-> str[i + n]]

\* the first n characters of `str`, or all of it when it is shorter
UpTo(str, n) == [i \in 1..(IF Len(str) > n THEN n ELSE Len(str)) |-> str[i]]

\* a flight number: the characters given, or null when there are none
NumberOrNull(str) == IF str = <<>> THEN NullSeq ELSE str

\* rule 1, private registration: N, one to five digits, at most two letters
MatchesPrivate(cs) ==
    /\ Len(cs) >= 2
    /\ cs[1] = "N"
    /\ \E d \in 1..5 :
          /\ d <= Len(cs) - 1
          /\ Len(cs) - 1 - d <= 2
          /\ \A i \in 1..(Len(cs) - 1) :
                IF i <= d THEN cs[i + 1] \in DecimalDigits
                ELSE cs[i + 1] \in CapitalLetters

\* rule 2, the supersonic marker: the callsign starts with CONC
MatchesConcorde(cs) == Len(cs) >= 4 /\ UpTo(cs, 4) = <<"C", "O", "N", "C">>

\* rule 3, IATA style: two letters and a digit
MatchesIata(cs) ==
    /\ Len(cs) >= 3
    /\ cs[1] \in CapitalLetters /\ cs[2] \in CapitalLetters /\ cs[3] \in DecimalDigits

\* rule 4, the standard prefix: three letters
MatchesStandard(cs) == Len(cs) >= 3 /\ \A i \in 1..3 : cs[i] \in CapitalLetters

\* the entries of the loaded table for the standard prefix of the callsign
TableEntries(cs) ==
    IF airlineCall.cache.loaded
    THEN {a \in airlineCall.cache.entries : a.prefix = UpTo(cs, 3)}
    ELSE {}

NoRuleMatches ==
    LET cs == CallsignInCapitals
    IN  ~MatchesPrivate(cs) /\ ~MatchesConcorde(cs) /\ ~MatchesIata(cs)
            /\ ~MatchesStandard(cs)

\* C14: the classification never throws, for the empty, a short, a
\* non-alphabetic and an absent callsign too; in the fallback branch name,
\* website and flightNumber are null and prefix is the capitalised slice of
\* the first three characters, or null.
C14_NeverThrows ==
    airlineCall.called =>
        /\ ~airlineCall.result.threw
        /\ NoRuleMatches =>
              /\ airlineCall.result.name = Null
              /\ airlineCall.result.website = Null
              /\ airlineCall.result.flightNumber = NullSeq
              /\ airlineCall.result.prefix \in {NullSeq, UpTo(CallsignInCapitals, 3)}

(***************************************************************************)
(* The airport table loader.                                               *)
(***************************************************************************)
ParseNext == AddLine \/ ParseText

\* parseVATSpyData on every text of up to MaxLines lines of the model
SpecParse == PipeInitAll /\ [][ParseNext]_vars

\* line i of the text, without the white space around it
TrimmedLine(i) == Trim(parseCall.lines[i])

\* line i is a section header
IsHeader(i) == TrimmedLine(i) # <<>> /\ Head(TrimmedLine(i)) \in {"[Airports]", "[Countries]", "[airports]"}

\* line i lies in the airports section: the nearest header above it is the
\* airports header
InsideAirports(i) ==
    \E h \in 1..(i - 1) :
        /\ IsHeader(h)
        /\ TrimmedLine(h) = <<"[Airports]">>
        /\ \A k \in (h + 1)..(i - 1) : ~IsHeader(k)

\* field n of line i, split on the separator
Field(i, n) == SplitOnPipe(TrimmedLine(i), <<>>)[n]

FieldCount(i) == 1 + Cardinality({k \in 1..Len(TrimmedLine(i)) : TrimmedLine(i)[k] = "|"})

\* the texts of the model that are numbers
NumericTexts == {"40", "0", "1"}

\* line i is a data line of the airports section that yields an airport
YieldsAirport(i) ==
    /\ ~IsHeader(i)
    /\ TrimmedLine(i) # <<>>
    /\ Head(TrimmedLine(i)) # ";"
    /\ InsideAirports(i)
    /\ FieldCount(i) >= 6
    /\ ~(FieldCount(i) >= 7 /\ Field(i, 7) = <<"1">>)
    /\ PartText(Field(i, 3)) \in NumericTexts
    /\ PartText(Field(i, 4)) \in NumericTexts

\* the ICAO of line i in capitals
KeyOfLine(i) ==
    LET text == PartText(Field(i, 1))
    IN  IF text = "kjfk" THEN "KJFK" ELSE text

\* C15: after the load the lookup has an entry for an ICAO, in capitals,
\* exactly when a data line of the airports section with at least six
\* fields, no pseudo flag and numeric coordinates names it; no other line
\* contributes an entry.
C15_EntriesOfTheAirportsSection ==
    parseCall.parsed =>
        {a.icao : a \in parseCall.airports}
            = {KeyOfLine(i) : i \in {k \in 1..Len(parseCall.lines) : YieldsAirport(k)}}

\* the airports header, a real line and a pseudo-airport line: the lookup
\* holds the real entry only
C15_RealAndPseudo ==
    /\ parseCall.parsed
    /\ Len(parseCall.lines) = 3
    /\ parseCall.lines[1] = <<"[Airports]">>
    /\ parseCall.lines[2] = AirportLine("kjfk", "40", "0", <<>>)
    /\ parseCall.lines[3] = AirportLine("KBOS", "40", "40", <<"|", "1">>)
    /\ {a.icao : a \in parseCall.airports} = {"KJFK"}

(***************************************************************************)
(* The airport search.                                                     *)
(***************************************************************************)
SearchNext == Search

\* searchAirports on every table prefix, query and limit of the model
SpecSearch == PipeInitAll /\ [][SearchNext]_vars

\* the characters of `str` in capitals
InCapitals(str) == [i \in 1..Len(str) |-> UpperChar(str[i])]

\* `sub` occurs in `str`
OccursIn(sub, str) ==
    \E k \in 0..Len(str) :
        /\ k + Len(sub) <= Len(str)
        /\ SubSeq(str, k + 1, k + Len(sub)) = sub

\* the positions of the table whose airport matches the query without
\* regard to case, on ICAO, name or IATA code
MatchingPositions ==
    {i \in 1..Len(searchCall.airports) :
        LET a == searchCall.airports[i]
            q == InCapitals(searchCall.query)
        IN  \/ OccursIn(q, InCapitals(a.icao))
            \/ OccursIn(q, InCapitals(a.name))
            \/ a.iata # NullSeq /\ OccursIn(q, InCapitals(a.iata))}

\* the first n matching airports in table order
RECURSIVE FirstMatches(_, _)
FirstMatches(from, n) ==
    IF n = 0 \/ from > Len(searchCall.airports) THEN <<>>
    ELSE IF from \in MatchingPositions
    THEN <<searchCall.airports[from]>> \o FirstMatches(from + 1, n - 1)
    ELSE FirstMatches(from + 1, n)

\* C16: for every query and every limit, 0 included, the search returns at
\* most `limit` airports: the first matches, in table order, of the
\* case-insensitive substring test on ICAO, name or IATA code.
C16_AtMostLimit ==
    searchCall.called =>
        /\ Len(searchCall.result) <= searchCall.limit
        /\ searchCall.result = FirstMatches(1, searchCall.limit)

(***************************************************************************)
(* The fetch operations.                                                   *)
(***************************************************************************)
FetchInit ==
    /\ PipeInit
    /\ PureInit
    /\ AppInit
    /\ innerHeight = 600
    /\ airportsCache = FALSE

FetchNext == FetchVatsimData \/ FetchAirports \/ FetchAirlines

\* up to MaxFetches fetch operations in any order, each with any response
SpecFetch == FetchInit /\ [][FetchNext]_vars

\* the request of the last fetch operation did not deliver its data
RetrievalFailed == fetchCall.requested /\ fetchCall.response # "ok"

\* C17: when the snapshot, the airport text or the airline table cannot be
\* retrieved, the fetch operation fails towards its caller; it does not
\* return a default value in place of the data.
C17_FailurePropagates == RetrievalFailed => fetchCall.threw

(***************************************************************************)
(* The stored list and the context it belongs to.                          *)
(***************************************************************************)
\* the pipeline's output for the stored snapshot, the current airport and
\* the direction `dir`
ListFor(dir) ==
    GetFlightsForAirport(airportsCache, state.vatsimData, state.icao, dir,
                         state.airport)

\* C18: the stored flight list is empty or it is the pipeline's output for
\* the current airport and the current displayMode, whatever flips,
\* navigations and refreshes came before, a refresh that was started under
\* another direction or airport included.
C18_ListOfCurrentContext ==
    \/ state.flights = <<>>
    \/ /\ state.vatsimData.present
       /\ IsAirport(state.airport)
       /\ state.flights = ListFor(state.displayMode)

\* a refresh started while departures were shown completes after the flip
\* to arrivals: the list it stored is the arrivals list, which differs from
\* the departures list of the same snapshot
C18_RefreshAfterFlip ==
    /\ refreshed.done
    /\ refreshed.dir = "dep"
    /\ state.displayMode = "arr"
    /\ state.error = Null
    /\ state.flights # <<>>
    /\ state.flights = ListFor("arr")
    /\ state.flights # ListFor("dep")

(***************************************************************************)
(* The rotation timers and the selected mode.                              *)
(***************************************************************************)
\* a page-advance or countdown timer is active
RotationTimerRunning == \E t \in timers : t.kind \in {"cycle", "countdown"}

\* C19: while the selected mode is 'dep' or 'arr' no page-advance or
\* countdown timer is running and displayMode equals the mode, however the
\* navigateTo calls interleave.
C19_RotationOnlyInPre ==
    state.mode \in {"dep", "arr"} =>
        /\ ~RotationTimerRunning
        /\ state.displayMode = state.mode

(***************************************************************************)
(* The end of the loading state.                                           *)
(***************************************************************************)
\* a suspended refreshData() resumes: the snapshot fetch settles
FetchSettles == RefreshSucceeds \/ RefreshFails

\* the handlers with at most one snapshot fetch in flight; the countdown is
\* followed for one tick after each reset
NextLive ==
    \/ NavigateTo(1)
    \/ RefreshTick(1)
    \/ FetchSettles
    \/ CyclePre
    \/ CountdownTick(1)
    \/ Resize

\* every snapshot fetch settles and every running refresh or page-advance
\* timer fires; the user's navigations and resizes are under no obligation
\* FetchSettles can change the variables exactly when a fetch is in flight,
\* CyclePre exactly when a page-advance timer runs; the two conjuncts below
\* are WF_vars(FetchSettles) and WF_vars(CyclePre) with ENABLED written as
\* that state predicate
FetchIsFair == []<>(pending = <<>>) \/ []<><<FetchSettles>>_vars

CycleTimerIsFair ==
    []<>(~\E t \in timers : t.kind = "cycle") \/ []<><<CyclePre>>_vars

SpecLive ==
    /\ Init
    /\ [][NextLive]_vars
    /\ WF_vars(RefreshTick(1))
    /\ FetchIsFair
    /\ CycleTimerIsFair

\* a navigateTo has put the board into the loading state
LoadingAfterNavigation == state.icao # Null /\ state.isLoading

\* C20: after every navigateTo the loading state eventually ends, also for
\* an ICAO code the airport table does not hold and for a table that was
\* never loaded.
C20_LoadingEnds == LoadingAfterNavigation ~> ~state.isLoading

(***************************************************************************)
(* A refresh whose snapshot fetch fails, and the one that succeeds next.   *)
(***************************************************************************)
TimerKinds == {"refresh", "cycle", "countdown"}

\* every kind of timer that runs before the step runs after it
TimersKeepRunning ==
    \A kind \in TimerKinds :
        (\E t \in timers : t.kind = kind) => (\E t \in timers' : t.kind = kind)

\* the failed refresh touches nothing but the error and the loading flag
FailureOnlySetsError ==
    /\ state'.vatsimData = state.vatsimData
    /\ state'.flights = state.flights
    /\ state'.currentPage = state.currentPage
    /\ state'.displayMode = state.displayMode
    /\ state'.error = FetchError

\* the refresh that succeeds while the error is shown clears it and stores
\* the new snapshot and its list
SuccessClearsError ==
    /\ state'.error = Null
    /\ state'.vatsimData \in Snapshots
    /\ state'.flights =
           GetFlightsForAirport(airportsCache, state'.vatsimData, state'.icao,
                                state'.displayMode, state'.airport)

\* C21: a refresh whose snapshot fetch fails leaves the snapshot, the flight
\* list, currentPage and displayMode as they are and sets the error; the
\* refresh and rotation timers keep running; the next refresh that succeeds
\* clears the error and replaces the snapshot and the flight list.
C21_FailedRefreshKeepsBoard ==
    [][/\ RefreshFails => FailureOnlySetsError /\ TimersKeepRunning
       /\ (RefreshSucceeds /\ state.error # Null) => SuccessClearsError]_vars

====
